---- MODULE Spec2Model ----
(***************************************************************************)
(* Model of the price-window charging controller of                        *)
(* src/smart_energy_controller.py (SmartEnergyController): one control     *)
(* cycle (optimize_charging), the window search it calls                   *)
(* (find_best_charging_window), the register writes of set_battery_mode,   *)
(* and the run loop that repeats the cycle every five minutes; with them   *)
(* the window finders of src/tibber_client.py and src/energy_optimizer.py. *)
(*                                                                         *)
(* Time is counted in half hours (Hour(h) = 2*h), so that an instant can   *)
(* lie exactly on an hour boundary or strictly inside an hour.  Prices are *)
(* integers (a currency unit small enough that every price is whole); a    *)
(* quotient the code computes in floating point is kept as an exact        *)
(* fraction numerator/denominator and compared by cross-multiplication.    *)
(***************************************************************************)
EXTENDS Integers, Sequences, FiniteSets, TLC

VARIABLES
    pc,               \* position of SmartEnergyController.run: "idle" | "done"
                      \* (of each of two overlapping cycles: a pair)
    mode_register,    \* holding register pair 40151 (battery_operation_mode)
    power_register,   \* holding register pair 40149 (battery_power_control)
    cyc,              \* inputs and outcome of the cycle (call) that just
                      \* ended (of each of two overlapping cycles)
    mode_register2,   \* register 40151 of a second, independent run (with
                      \* overlapping cycles: as it was before the two began)
    power_register2,  \* register 40149 of a second, independent run (with
                      \* overlapping cycles: as it was before the two began)
    paired            \* the last cycle gave both runs the same inputs

vars == <<pc, mode_register, power_register, cyc,
          mode_register2, power_register2, paired>>

----------------------------------------------------------------------------
(* Program constants                                                       *)

\* BatteryMode: FAST_CHARGE and FAST_DISCHARGE are aliases of PAUSE (802)
NORMAL == 803
PAUSE == 802
FAST_CHARGE == 802
FAST_DISCHARGE == 802

min_charge_level == 20
max_charge_level == 95
optimal_charge_level == 80

\* default of the parameter hours_needed of find_best_charging_window
hours_needed == 4

\* emergency charging power of the floor rule
emergency_power == 1500

----------------------------------------------------------------------------
(* Bounds of the model                                                     *)

\* number of hourly price points of an ordinary price series
SeriesLen == 5

\* largest number of half hours the clock advances between the instant
\* optimize_charging samples and the one find_best_charging_window samples
MaxDelay == 1

\* prices a point of an ordinary series may take; (8-5)/(20-5) = 0.2
PriceValues == {5, 8, 20}

\* states of charge the register may hold
SocValues == {20, 50, 80, 95}

----------------------------------------------------------------------------
(* Time and price series                                                   *)

Hour(h) == 2 * h

\* the list get_tibber_prices returns: hourly points from the series' start
Series(totals) ==
    [i \in 1..Len(totals) |-> [startsAt |-> Hour(i - 1), total |-> totals[i]]]

\* 24 hourly points priced 20 except hour 14 priced 5
TroughSeries == Series([i \in 1..24 |-> IF i = 15 THEN 5 ELSE 20])

RECURSIVE SeqsOfLen(_)
SeqsOfLen(n) ==
    IF n = 0 THEN {<<>>}
    ELSE {Append(s, v) : s \in SeqsOfLen(n - 1), v \in PriceValues}

\* 8 hourly points, all priced 20
LongFlatSeries == Series([i \in 1..8 |-> 20])

\* get_tibber_prices: [] on any error, else today's (and tomorrow's) points
PriceLists ==
    {<<>>} \cup {Series(t) : t \in SeqsOfLen(SeriesLen)}
           \cup {TroughSeries, LongFlatSeries}

Totals(points) == [i \in 1..Len(points) |-> points[i].total]

SetMin(S) == CHOOSE x \in S : \A y \in S : x <= y
SetMax(S) == CHOOSE x \in S : \A y \in S : x >= y
Range(s) == {s[i] : i \in 1..Len(s)}
SeqMin(s) == SetMin(Range(s))
SeqMax(s) == SetMax(Range(s))

RECURSIVE SeqSum(_)
SeqSum(s) == IF s = <<>> THEN 0 ELSE s[1] + SeqSum(Tail(s))

\* Python's int(): truncation toward zero of the fraction n/d, d > 0
IntTrunc(n, d) == IF n >= 0 THEN n \div d ELSE -((-n) \div d)

Max2(a, b) == IF a >= b THEN a ELSE b
Min2(a, b) == IF a <= b THEN a ELSE b

----------------------------------------------------------------------------
(* get_battery_status                                                      *)

\* registers read_sma_register returns for 30845: None (here <<>>) when the
\* read fails, else the pair [0, soc]
SocReads == {<<>>} \cup {<<0, v>> : v \in SocValues}

\* current_charge_level: 0 unless the read returned two registers
state_of_charge(charge_level_registers) ==
    IF charge_level_registers # <<>> /\ Len(charge_level_registers) = 2
    THEN charge_level_registers[2]
    ELSE 0

----------------------------------------------------------------------------
(* find_best_charging_window                                               *)

\* future_prices with the comparison startsAt >= now
future_prices_from_now(prices, now) ==
    SelectSeq(prices, LAMBDA p : p.startsAt >= now)

\* the points whose start lies strictly after the instant sampled
future_prices(prices, now) ==
    SelectSeq(prices, LAMBDA p : p.startsAt > now)

NoWindow ==
    [found |-> FALSE, start_time |-> 0, end_time |-> 0, sum_price |-> 0,
     pos_num |-> 0, pos_den |-> 1, score_num |-> 0, score_den |-> 1]

\* weights of price position and price stability in window_score, in tenths
PositionWeight == 6
StabilityWeight == 4

\* Window with the weights exchanged: 0.4 * position + 0.6 * stability
WindowStabilityFirst(future, i, n, min_price, price_range) ==
    LET window == SubSeq(future, i + 1, i + n)
        window_prices == Totals(window)
        sum == SeqSum(window_prices)
        spread == SeqMax(window_prices) - SeqMin(window_prices)
    IN  [found |-> TRUE,
         start_time |-> window[1].startsAt,
         end_time |-> window[n].startsAt + Hour(1),
         sum_price |-> sum,
         pos_num |-> IF price_range > 0 THEN sum - n * min_price ELSE 0,
         pos_den |-> IF price_range > 0 THEN n * price_range ELSE 1,
         score_num |-> IF price_range > 0
                       THEN StabilityWeight * (sum - n * min_price)
                            + PositionWeight * n * spread
                       ELSE 0,
         score_den |-> IF price_range > 0 THEN 10 * n * price_range ELSE 1]

\* Window with the sum of the window's prices in the place of their average
WindowSumForAverage(future, i, n, min_price, price_range) ==
    LET window == SubSeq(future, i + 1, i + n)
        window_prices == Totals(window)
        sum == SeqSum(window_prices)
        spread == SeqMax(window_prices) - SeqMin(window_prices)
    IN  [found |-> TRUE,
         start_time |-> window[1].startsAt,
         end_time |-> window[n].startsAt + Hour(1),
         sum_price |-> sum,
         pos_num |-> IF price_range > 0 THEN sum - min_price ELSE 0,
         pos_den |-> IF price_range > 0 THEN price_range ELSE 1,
         score_num |-> IF price_range > 0
                       THEN PositionWeight * (sum - min_price)
                            + StabilityWeight * spread
                       ELSE 0,
         score_den |-> IF price_range > 0 THEN 10 * price_range ELSE 1]

\* the candidate window of the points future[i+1 .. i+n] (Python's
\* future_prices[i:i+n]); min_price and price_range are those of the future
\* subset.  relative_position = pos_num/pos_den, score = score_num/score_den,
\* average_price = sum_price/n.
Window(future, i, n, min_price, price_range) ==
    LET window == SubSeq(future, i + 1, i + n)
        window_prices == Totals(window)
        sum == SeqSum(window_prices)
        spread == SeqMax(window_prices) - SeqMin(window_prices)
    IN  [found |-> TRUE,
         start_time |-> window[1].startsAt,
         end_time |-> window[n].startsAt + Hour(1),
         sum_price |-> sum,
         pos_num |-> IF price_range > 0 THEN sum - n * min_price ELSE 0,
         pos_den |-> IF price_range > 0 THEN n * price_range ELSE 1,
         score_num |-> IF price_range > 0
                       THEN PositionWeight * (sum - n * min_price)
                            + StabilityWeight * n * spread
                       ELSE 0,
         score_den |-> IF price_range > 0 THEN 10 * n * price_range ELSE 1]

\* ScanWindows with the comparison window_score <= best_score: among windows
\* of equal score the last one is kept
RECURSIVE ScanWindowsLastWins(_, _, _, _, _, _)
ScanWindowsLastWins(future, i, n, min_price, price_range, best) ==
    IF i > Len(future) - n THEN best
    ELSE LET w == Window(future, i, n, min_price, price_range)
             better == ~best.found \/ w.score_num <= best.score_num
         IN  ScanWindowsLastWins(future, i + 1, n, min_price, price_range,
                                 IF better THEN w ELSE best)

\* the loop over i: a window replaces the best one only when its score is
\* strictly lower (all scores of one search share score_den)
RECURSIVE ScanWindows(_, _, _, _, _, _)
ScanWindows(future, i, n, min_price, price_range, best) ==
    IF i > Len(future) - n THEN best
    ELSE LET w == Window(future, i, n, min_price, price_range)
             better == ~best.found \/ w.score_num < best.score_num
         IN  ScanWindows(future, i + 1, n, min_price, price_range,
                         IF better THEN w ELSE best)

find_best_charging_window(prices, now) ==
    IF prices = <<>> THEN NoWindow
    ELSE LET future == future_prices(prices, now)
         IN  IF Len(future) < hours_needed THEN NoWindow
             ELSE LET price_values == Totals(future)
                      min_price == SeqMin(price_values)
                      price_range == SeqMax(price_values) - min_price
                  IN  ScanWindows(future, 0, hours_needed, min_price,
                                  price_range, NoWindow)

\* search_divisors without the test price_range > 0
search_divisors_unguarded(prices, now) ==
    LET future == future_prices(prices, now)
    IN  IF prices = <<>> \/ Len(future) < hours_needed THEN {}
        ELSE {Len(future), hours_needed,
              SeqMax(Totals(future)) - SeqMin(Totals(future))}

\* the divisors of the divisions a call of find_best_charging_window
\* executes: len(price_values), len(window_prices), and price_range where
\* the test price_range > 0 lets the division happen
search_divisors(prices, now) ==
    LET future == future_prices(prices, now)
    IN  IF prices = <<>> \/ Len(future) < hours_needed THEN {}
        ELSE LET price_range ==
                     SeqMax(Totals(future)) - SeqMin(Totals(future))
             IN  {Len(future), hours_needed}
                     \cup (IF price_range > 0 THEN {price_range} ELSE {})

----------------------------------------------------------------------------
(* set_battery_mode                                                        *)

\* power_values with the two's complement of a charging power
power_values_twos_complement(power) ==
    IF power > 0 THEN <<65535, 65536 - power>>
    ELSE <<0, IF power < 0 THEN -power ELSE power>>

\* the register pair written to 40149 for a power: charging (power > 0) is
\* [65535, 65535 - power], discharging is [0, |power|]
power_values(power) ==
    IF power > 0 THEN <<65535, 65535 - power>>
    ELSE <<0, IF power < 0 THEN -power ELSE power>>

\* set_battery_mode writing the power register before the mode register
set_battery_mode_power_first(mode, power, mode_ok, power_ok, mreg, preg) ==
    LET p == IF power # 0 /\ power_ok THEN power_values(power) ELSE preg
    IN  [ok |-> mode_ok /\ (power # 0 => power_ok),
         mode_register |-> IF mode_ok THEN <<0, mode>> ELSE mreg,
         power_register |-> p]

\* mode_ok, power_ok: the write of the mode (power) register succeeds; a
\* failed write (an error response, or no connection) changes no register.
\* The mode pair is written first; the power pair only after a successful
\* mode write and only for a non-zero power.
set_battery_mode(mode, power, mode_ok, power_ok, mreg, preg) ==
    IF ~mode_ok
    THEN [ok |-> FALSE, mode_register |-> mreg, power_register |-> preg]
    ELSE IF power # 0
    THEN IF power_ok
         THEN [ok |-> TRUE, mode_register |-> <<0, mode>>,
               power_register |-> power_values(power)]
         ELSE [ok |-> FALSE, mode_register |-> <<0, mode>>,
               power_register |-> preg]
    ELSE [ok |-> TRUE, mode_register |-> <<0, mode>>, power_register |-> preg]

----------------------------------------------------------------------------
(* optimize_charging                                                       *)

NoCall == [called |-> FALSE, mode |-> 0, power |-> 0]
Call(mode, power) == [called |-> TRUE, mode |-> mode, power |-> power]

\* index of current_price_data: the first point with
\* startsAt <= now <= startsAt + 1 hour, 0 when there is none (None)
current_price_data(prices, now) ==
    LET hit == {i \in 1..Len(prices) :
                   /\ prices[i].startsAt <= now
                   /\ now <= prices[i].startsAt + Hour(1)}
    IN  IF hit = {} THEN 0 ELSE SetMin(hit)

\* is_current_price_favorable with the comparison < 0.2
is_current_price_favorable_strict(current_price, min_price, price_range) ==
    IF price_range > 0
    THEN 5 * (current_price - min_price) < price_range
    ELSE TRUE

\* current_price_position <= 0.2, the position being
\* (current_price - min_price) / price_range, or 0 when price_range = 0
is_current_price_favorable(current_price, min_price, price_range) ==
    IF price_range > 0
    THEN 5 * (current_price - min_price) <= price_range
    ELSE TRUE

\* min(5000, max(1500, int(5000 * (1 - soc/100))))
base_power(soc) ==
    Min2(5000, Max2(1500, IntTrunc(5000 * (100 - soc), 100)))

\* soc_factor in hundredths: 1.0 below 85, else 1.0 - 0.8 * (soc - 85) / 10
soc_factor(soc) == IF soc >= 85 THEN 100 - 8 * (soc - 85) ELSE 100

\* charging_power with the price term 0.7 + 0.3 * current_price_position
charging_power_rising(soc, pos_num, pos_den) ==
    Max2(1000, IntTrunc(base_power(soc) * soc_factor(soc)
                            * (7 * pos_den + 3 * pos_num),
                        1000 * pos_den))

\* charging_power without the minimum power threshold of 1000 W
charging_power_unfloored(soc, pos_num, pos_den) ==
    IntTrunc(base_power(soc) * soc_factor(soc) * (10 * pos_den - 3 * pos_num),
             1000 * pos_den)

\* max(1000, int(base_power * soc_factor * (0.7 + 0.3 * price_factor))) with
\* price_factor = 1 - pos_num/pos_den
charging_power(soc, pos_num, pos_den) ==
    Max2(1000, IntTrunc(base_power(soc) * soc_factor(soc)
                            * (10 * pos_den - 3 * pos_num),
                        1000 * pos_den))

\* power of the window branch: int(base_power * (0.7 + 0.3 * power_factor))
\* with power_factor = 1 - relative_position
window_power(soc, w) ==
    IntTrunc(base_power(soc) * (10 * w.pos_den - 3 * w.pos_num),
             10 * w.pos_den)

\* start_time <= now <= end_time and score < 0.4
in_best_window(w, now) ==
    /\ w.start_time <= now
    /\ now <= w.end_time
    /\ 10 * w.score_num < 4 * w.score_den

Outcome(rule, call, searched, window) ==
    [rule |-> rule, call |-> call, searched |-> searched, window |-> window]

\* the decision made after a window was found
decide_with_window(soc, now, best_window) ==
    IF soc >= max_charge_level
    THEN Outcome("ceiling", Call(NORMAL, 0), TRUE, best_window)
    ELSE IF soc <= min_charge_level
    THEN Outcome("floor", Call(FAST_CHARGE, emergency_power), TRUE, best_window)
    ELSE IF in_best_window(best_window, now)
    THEN Outcome("window", Call(FAST_CHARGE, window_power(soc, best_window)),
                 TRUE, best_window)
    ELSE Outcome("default", Call(NORMAL, 0), TRUE, best_window)

\* should_charge_now of the cycle's inputs (car_charging_active is false here)
should_charge_now(soc, prices, now) ==
    LET k == current_price_data(prices, now)
        price_values == Totals(prices)
        min_price == SeqMin(price_values)
        price_range == SeqMax(price_values) - min_price
    IN  /\ k # 0
        /\ is_current_price_favorable(prices[k].total, min_price, price_range)
        /\ soc < optimal_charge_level

\* charging_power of the opportunistic branch
charge_now_power(soc, prices, now) ==
    LET k == current_price_data(prices, now)
        price_values == Totals(prices)
        min_price == SeqMin(price_values)
        price_range == SeqMax(price_values) - min_price
    IN  IF price_range > 0
        THEN charging_power(soc, prices[k].total - min_price, price_range)
        ELSE charging_power(soc, 0, 1)

\* One cycle.  get_battery_status returns a status object whenever no
\* exception escapes its reads, and every read catches its own exceptions:
\* the status is never None, a failed read of the state of charge yields 0.
\* now is sampled by optimize_charging, now2 by find_best_charging_window.
optimize_charging(soc_regs, car_charging_active, electricity_prices, now, now2) ==
    LET soc == state_of_charge(soc_regs)
    IN  IF electricity_prices = <<>>
        THEN Outcome("missing_data", NoCall, FALSE, NoWindow)
        ELSE IF car_charging_active
        THEN Outcome("car_charging", Call(PAUSE, 0), FALSE, NoWindow)
        ELSE IF should_charge_now(soc, electricity_prices, now)
        THEN Outcome("charge_now",
                     Call(FAST_CHARGE,
                          charge_now_power(soc, electricity_prices, now)),
                     FALSE, NoWindow)
        ELSE LET best_window ==
                     find_best_charging_window(electricity_prices, now2)
             IN  IF ~best_window.found
                 THEN Outcome("no_window", NoCall, TRUE, NoWindow)
                 ELSE decide_with_window(soc, now, best_window)

\* the divisors of the divisions a cycle executes on its prices: price_range
\* for the position of the current price (under the test price_range > 0),
\* and those of the window search when the cycle reaches it
cycle_divisors(soc_regs, car_charging_active, electricity_prices, now, now2) ==
    LET soc == state_of_charge(soc_regs)
        price_range == SeqMax(Totals(electricity_prices))
                           - SeqMin(Totals(electricity_prices))
    IN  IF electricity_prices = <<>> \/ car_charging_active THEN {}
        ELSE (IF current_price_data(electricity_prices, now) # 0
                     /\ price_range > 0
              THEN {price_range} ELSE {})
             \cup (IF should_charge_now(soc, electricity_prices, now)
                   THEN {}
                   ELSE search_divisors(electricity_prices, now2))

----------------------------------------------------------------------------
(* Inputs of a cycle                                                       *)

\* what one cycle reads from its surroundings.  An input the cycle does not
\* read has one value: the clock is not sampled (now = 0) when the cycle
\* returns before line 694, delay (the time between the two clock samples)
\* is 0 when the window search is not reached, and a write that is not
\* attempted counts as successful.
InputsFor(p) ==
    {in \in [soc_regs : SocReads,
             car_charging_active : BOOLEAN,
             prices : {p},
             now : 0..Hour(Len(p)),
             delay : 0..MaxDelay,
             mode_ok : BOOLEAN,
             power_ok : BOOLEAN] :
        LET o == optimize_charging(in.soc_regs, in.car_charging_active,
                                   in.prices, in.now, in.now + in.delay)
        IN  /\ o.rule \in {"missing_data", "car_charging"} => in.now = 0
            /\ ~o.searched => in.delay = 0
            /\ ~o.call.called => in.mode_ok
            /\ ~(o.call.called /\ o.call.power # 0 /\ in.mode_ok)
                   => in.power_ok}

Inputs == UNION {InputsFor(p) : p \in PriceLists}

\* the inputs given to both runs when two runs are compared: every write
\* succeeds, and the price list is empty or flat
FlatLists ==
    {<<>>} \cup {Series([i \in 1..SeriesLen |-> v]) : v \in PriceValues}

PairInputs ==
    {in \in UNION {InputsFor(p) : p \in FlatLists} :
        in.mode_ok /\ in.power_ok}

----------------------------------------------------------------------------
(* The cycle as a whole                                                    *)

NoInputs ==
    [soc_regs |-> <<>>, car_charging_active |-> FALSE, prices |-> <<>>,
     now |-> 0, delay |-> 0, mode_ok |-> TRUE, power_ok |-> TRUE]

NoCycle ==
    [in |-> NoInputs, soc |-> 0, rule |-> "none", call |-> NoCall,
     searched |-> FALSE, window |-> NoWindow, ok |-> FALSE]

\* what optimize_charging decides for each of the inputs
Decided(S) ==
    {[in |-> in,
      o |-> optimize_charging(in.soc_regs, in.car_charging_active,
                              in.prices, in.now, in.now + in.delay)] :
        in \in S}

Decisions == Decided(Inputs)
PairDecisions == Decided(PairInputs)

\* optimize_charging with the writes of the set_battery_mode call it makes;
\* x is a pair of inputs and the decision optimize_charging takes on them
Cycle(x, mreg, preg) ==
    LET in == x.in
        o == x.o
        w == IF o.call.called
             THEN set_battery_mode(o.call.mode, o.call.power,
                                   in.mode_ok, in.power_ok, mreg, preg)
             ELSE [ok |-> FALSE, mode_register |-> mreg,
                   power_register |-> preg]
    IN  [in |-> in, soc |-> state_of_charge(in.soc_regs), rule |-> o.rule,
         call |-> o.call, searched |-> o.searched, window |-> o.window,
         ok |-> w.ok, mode_register |-> w.mode_register,
         power_register |-> w.power_register]

Record(c) ==
    [in |-> c.in, soc |-> c.soc, rule |-> c.rule, call |-> c.call,
     searched |-> c.searched, window |-> c.window, ok |-> c.ok]

\* the inverter starts in normal operation with no power setpoint
Init ==
    /\ pc = "idle"
    /\ mode_register = <<0, NORMAL>>
    /\ power_register = <<0, 0>>
    /\ mode_register2 = <<0, NORMAL>>
    /\ power_register2 = <<0, 0>>
    /\ cyc = NoCycle
    /\ paired = FALSE

\* run: one call of optimize_charging
OptimizeCharging ==
    /\ pc = "idle"
    /\ \E x \in Decisions :
          LET c == Cycle(x, mode_register, power_register)
          IN  /\ cyc' = Record(c)
              /\ mode_register' = c.mode_register
              /\ power_register' = c.power_register
    /\ pc' = "done"
    /\ paired' = FALSE
    /\ UNCHANGED <<mode_register2, power_register2>>

\* run: asyncio.sleep(300), after which the loop starts the next cycle
Sleep ==
    /\ pc = "done"
    /\ pc' = "idle"
    /\ cyc' = NoCycle
    /\ paired' = FALSE
    /\ UNCHANGED <<mode_register, power_register,
                   mode_register2, power_register2>>

Next == OptimizeCharging \/ Sleep

Spec == Init /\ [][Next]_vars

----------------------------------------------------------------------------
(* Two runs side by side                                                   *)

\* a cycle of the first run alone
CycleFirst ==
    /\ pc = "idle"
    /\ \E x \in PairDecisions :
          LET c == Cycle(x, mode_register, power_register)
          IN  /\ cyc' = Record(c)
              /\ mode_register' = c.mode_register
              /\ power_register' = c.power_register
    /\ pc' = "done"
    /\ paired' = FALSE
    /\ UNCHANGED <<mode_register2, power_register2>>

\* a cycle of the second run alone
CycleSecond ==
    /\ pc = "idle"
    /\ \E x \in PairDecisions :
          LET c == Cycle(x, mode_register2, power_register2)
          IN  /\ mode_register2' = c.mode_register
              /\ power_register2' = c.power_register
    /\ paired' = FALSE
    /\ UNCHANGED <<pc, cyc, mode_register, power_register>>

\* a cycle in which both runs receive the same inputs
CycleBoth ==
    /\ pc = "idle"
    /\ \E x \in PairDecisions :
          LET c == Cycle(x, mode_register, power_register)
              d == Cycle(x, mode_register2, power_register2)
          IN  /\ cyc' = Record(c)
              /\ mode_register' = c.mode_register
              /\ power_register' = c.power_register
              /\ mode_register2' = d.mode_register
              /\ power_register2' = d.power_register
    /\ pc' = "done"
    /\ paired' = TRUE

NextTwoRuns == CycleFirst \/ CycleSecond \/ CycleBoth \/ Sleep

SpecTwoRuns == Init /\ [][NextTwoRuns]_vars

----------------------------------------------------------------------------
(* The other window finders                                                *)

\* TibberClient.find_best_charging_window: the candidate window; its
\* end_time is the start of the window's last point
tibber_Window(future, i, n, min_price, price_range) ==
    LET window == SubSeq(future, i + 1, i + n)
    IN  [Window(future, i, n, min_price, price_range)
            EXCEPT !.end_time = window[n].startsAt]

RECURSIVE tibber_ScanWindows(_, _, _, _, _, _)
tibber_ScanWindows(future, i, n, min_price, price_range, best) ==
    IF i > Len(future) - n THEN best
    ELSE LET w == tibber_Window(future, i, n, min_price, price_range)
             better == ~best.found \/ w.score_num < best.score_num
         IN  tibber_ScanWindows(future, i + 1, n, min_price, price_range,
                                IF better THEN w ELSE best)

tibber_find_best_charging_window(prices, now) ==
    IF prices = <<>> THEN NoWindow
    ELSE LET future == future_prices(prices, now)
         IN  IF Len(future) < hours_needed THEN NoWindow
             ELSE LET price_values == Totals(future)
                      min_price == SeqMin(price_values)
                      price_range == SeqMax(price_values) - min_price
                  IN  tibber_ScanWindows(future, 0, hours_needed, min_price,
                                         price_range, NoWindow)

\* EnergyOptimizer.find_cheapest_hours: price_times, the points that start
\* after now (already in the order of their start)
price_times(prices, now) ==
    SelectSeq(prices, LAMBDA p : p.startsAt > now)

NoHours == [found |-> FALSE, start_time |-> 0, end_time |-> 0, sum_price |-> 0]

\* the loop over i: a window replaces the best one only when its average
\* (its sum, every window holding n points) is strictly lower
RECURSIVE ScanHours(_, _, _, _)
ScanHours(times, i, n, best) ==
    IF i > Len(times) - n THEN best
    ELSE LET window == SubSeq(times, i + 1, i + n)
             sum == SeqSum(Totals(window))
             better == ~best.found \/ sum < best.sum_price
         IN  ScanHours(times, i + 1, n,
                       IF better
                       THEN [found |-> TRUE,
                             start_time |-> window[1].startsAt,
                             end_time |-> window[1].startsAt + Hour(n),
                             sum_price |-> sum]
                       ELSE best)

find_cheapest_hours(prices, now) ==
    IF prices = <<>> \/ Len(prices) < hours_needed THEN NoHours
    ELSE LET times == price_times(prices, now)
         IN  IF times = <<>> THEN NoHours
             ELSE ScanHours(times, 0, hours_needed, NoHours)

----------------------------------------------------------------------------
(* The window finders called on their own                                  *)

\* the windows the loop of find_best_charging_window evaluates, in the order
\* it evaluates them (none when the search returns before the loop)
Candidates(prices, now) ==
    LET future == future_prices(prices, now)
    IN  IF prices = <<>> \/ Len(future) < hours_needed THEN <<>>
        ELSE LET price_values == Totals(future)
                 min_price == SeqMin(price_values)
                 price_range == SeqMax(price_values) - min_price
             IN  [k \in 1..(Len(future) - hours_needed + 1) |->
                     Window(future, k - 1, hours_needed, min_price,
                            price_range)]

\* the series a finder is called with: none, one hour more than an ordinary
\* series (so that the search has more than one candidate), the trough series
SearchLists ==
    {<<>>} \cup {Series(t) : t \in SeqsOfLen(SeriesLen + 1)}
           \cup {TroughSeries}

SearchInputs ==
    UNION {{[prices |-> p, now |-> t] : t \in 0..Hour(Len(p))} :
              p \in SearchLists}

NoSearch ==
    [finder |-> "none", prices |-> <<>>, now |-> 0, future |-> <<>>,
     candidates |-> <<>>, window |-> NoWindow]

InitSearch ==
    /\ pc = "idle"
    /\ mode_register = <<0, NORMAL>>
    /\ power_register = <<0, 0>>
    /\ mode_register2 = <<0, NORMAL>>
    /\ power_register2 = <<0, 0>>
    /\ cyc = NoSearch
    /\ paired = FALSE

\* a call of SmartEnergyController.find_best_charging_window
ControllerSearch ==
    /\ pc = "idle"
    /\ \E in \in SearchInputs :
          cyc' = [finder |-> "controller", prices |-> in.prices,
                  now |-> in.now,
                  future |-> future_prices(in.prices, in.now),
                  candidates |-> Candidates(in.prices, in.now),
                  window |-> find_best_charging_window(in.prices, in.now)]
    /\ pc' = "done"
    /\ UNCHANGED <<mode_register, power_register, mode_register2,
                   power_register2, paired>>

\* a call of TibberClient.find_best_charging_window
TibberSearch ==
    /\ pc = "idle"
    /\ \E in \in SearchInputs :
          cyc' = [finder |-> "tibber", prices |-> in.prices,
                  now |-> in.now,
                  future |-> future_prices(in.prices, in.now),
                  candidates |-> Candidates(in.prices, in.now),
                  window |-> tibber_find_best_charging_window(in.prices,
                                                              in.now)]
    /\ pc' = "done"
    /\ UNCHANGED <<mode_register, power_register, mode_register2,
                   power_register2, paired>>

\* a call of EnergyOptimizer.find_cheapest_hours
OptimizerSearch ==
    /\ pc = "idle"
    /\ \E in \in SearchInputs :
          cyc' = [finder |-> "optimizer", prices |-> in.prices,
                  now |-> in.now,
                  future |-> price_times(in.prices, in.now),
                  candidates |-> <<>>,
                  window |-> find_cheapest_hours(in.prices, in.now)]
    /\ pc' = "done"
    /\ UNCHANGED <<mode_register, power_register, mode_register2,
                   power_register2, paired>>

\* the call returns to its caller
SearchReturns ==
    /\ pc = "done"
    /\ pc' = "idle"
    /\ cyc' = NoSearch
    /\ UNCHANGED <<mode_register, power_register, mode_register2,
                   power_register2, paired>>

NextSearch ==
    ControllerSearch \/ TibberSearch \/ OptimizerSearch \/ SearchReturns

SpecSearch == InitSearch /\ [][NextSearch]_vars

----------------------------------------------------------------------------
(* The power computations applied on their own                             *)

\* bound: a price position is a multiple of 1/PositionSteps
PositionSteps == 10

\* states of charge in percent
SocRange == 0..100

NoPower ==
    [op |-> "none", soc |-> 0, factor |-> 0, pos1 |-> 0, pos2 |-> 0,
     power1 |-> 0, power2 |-> 0]

InitPower ==
    /\ pc = "idle"
    /\ mode_register = <<0, NORMAL>>
    /\ power_register = <<0, 0>>
    /\ mode_register2 = <<0, NORMAL>>
    /\ power_register2 = <<0, 0>>
    /\ cyc = NoPower
    /\ paired = FALSE

\* the computation of soc_factor for a state of charge
ApplySocFactor ==
    /\ pc = "idle"
    /\ \E soc \in SocRange :
          cyc' = [op |-> "soc_factor", soc |-> soc,
                  factor |-> soc_factor(soc), pos1 |-> 0, pos2 |-> 0,
                  power1 |-> 0, power2 |-> 0]
    /\ pc' = "done"
    /\ UNCHANGED <<mode_register, power_register, mode_register2,
                   power_register2, paired>>

\* the power of the favorable-hour branch, computed for one state of charge
\* at two price positions pos1/PositionSteps <= pos2/PositionSteps
ApplyChargingPower ==
    /\ pc = "idle"
    /\ \E soc \in SocRange, p1 \in 0..PositionSteps, p2 \in 0..PositionSteps :
          /\ p1 <= p2
          /\ cyc' = [op |-> "charging_power", soc |-> soc,
                     factor |-> soc_factor(soc), pos1 |-> p1, pos2 |-> p2,
                     power1 |-> charging_power(soc, p1, PositionSteps),
                     power2 |-> charging_power(soc, p2, PositionSteps)]
    /\ pc' = "done"
    /\ UNCHANGED <<mode_register, power_register, mode_register2,
                   power_register2, paired>>

\* the power of the window branch, computed for one state of charge and two
\* windows of relative positions pos1/PositionSteps <= pos2/PositionSteps
ApplyWindowPower ==
    /\ pc = "idle"
    /\ \E soc \in SocRange, p1 \in 0..PositionSteps, p2 \in 0..PositionSteps :
          /\ p1 <= p2
          /\ cyc' = [op |-> "window_power", soc |-> soc,
                     factor |-> 100, pos1 |-> p1, pos2 |-> p2,
                     power1 |-> window_power(soc,
                                   [pos_num |-> p1, pos_den |-> PositionSteps]),
                     power2 |-> window_power(soc,
                                   [pos_num |-> p2, pos_den |-> PositionSteps])]
    /\ pc' = "done"
    /\ UNCHANGED <<mode_register, power_register, mode_register2,
                   power_register2, paired>>

PowerReturns ==
    /\ pc = "done"
    /\ pc' = "idle"
    /\ cyc' = NoPower
    /\ UNCHANGED <<mode_register, power_register, mode_register2,
                   power_register2, paired>>

NextPower ==
    ApplySocFactor \/ ApplyChargingPower \/ ApplyWindowPower \/ PowerReturns

SpecPower == InitPower /\ [][NextPower]_vars

----------------------------------------------------------------------------
(* Two overlapping cycles                                                  *)

\* Two calls of optimize_charging run as tasks of one event loop.  A task
\* yields to the other where it awaits its inputs (lines 670-672) and at
\* asyncio.sleep(5) between the mode write and the power write of
\* set_battery_mode (line 581); the Modbus writes themselves are synchronous.

\* the price series and the instants of the overlapping cycles: at 0 the
\* current hour is the expensive one and four points lie ahead, at 3 the
\* current hour is cheap, after the last hour there is no current point
OverlapSeries == Series(<<20, 5, 5, 5, 5>>)
OverlapTimes == {0, 3, Hour(5) + 1}

\* what optimize_charging decides on the inputs in; status_missing:
\* get_battery_status returned None
cycle_outcome(in) ==
    IF in.status_missing
    THEN Outcome("missing_data", NoCall, FALSE, NoWindow)
    ELSE optimize_charging(in.soc_regs, in.car_charging_active, in.prices,
                           in.now, in.now + in.delay)

\* the inputs of an overlapping cycle; an input the cycle does not read has
\* one value
OverlapInputs ==
    {in \in [soc_regs : SocReads,
             car_charging_active : BOOLEAN,
             prices : {<<>>, OverlapSeries},
             now : OverlapTimes,
             delay : {0},
             mode_ok : BOOLEAN,
             power_ok : BOOLEAN,
             status_missing : BOOLEAN] :
        LET o == cycle_outcome(in)
        IN  /\ in.status_missing
                   => in.soc_regs = <<>> /\ ~in.car_charging_active
                          /\ in.prices = <<>>
            /\ o.rule \in {"missing_data", "car_charging"} => in.now = 0
            /\ ~o.call.called => in.mode_ok
            /\ ~(o.call.called /\ o.call.power # 0 /\ in.mode_ok)
                   => in.power_ok}

OverlapDecisions == {[in |-> in, o |-> cycle_outcome(in)] : in \in OverlapInputs}

\* exceptions a statement of the body of optimize_charging may raise on
\* malformed data (an unparsable startsAt, a point without 'total')
RaisedKinds == {"ValueError", "KeyError"}

\* except Exception with the clause narrowed to ValueError
handles_value_error_only(kind) == kind = "ValueError"

\* except Exception (line 789): every exception of the body is caught,
\* logged, and the call returns
handles(kind) == kind \in {"ValueError", "KeyError", "TypeError",
                           "ZeroDivisionError", "AttributeError"}

\* set_battery_mode writes the power register for every power
power_write_always(power) == TRUE

\* set_battery_mode, line 580: the power register is written (after the
\* sleep) only for a non-zero power
power_write_needed(power) == power # 0

NoDecision ==
    [in |-> [soc_regs |-> <<>>, car_charging_active |-> FALSE,
             prices |-> <<>>, now |-> 0, delay |-> 0, mode_ok |-> TRUE,
             power_ok |-> TRUE, status_missing |-> FALSE],
     o |-> Outcome("none", NoCall, FALSE, NoWindow)]

NoTask == [x |-> NoDecision, raised |-> "none"]

Other(t) == 3 - t

InitOverlap ==
    /\ pc = <<"idle", "idle">>
    /\ mode_register = <<0, NORMAL>>
    /\ power_register = <<0, 0>>
    /\ mode_register2 = <<0, NORMAL>>
    /\ power_register2 = <<0, 0>>
    /\ cyc = [task |-> <<NoTask, NoTask>>, overlapped |-> FALSE]
    /\ paired = FALSE

\* task t enters optimize_charging and awaits its inputs; the registers as
\* they are when the first of the two enters are kept for comparison
Begin(t) ==
    /\ pc[t] = "idle"
    /\ pc' = [pc EXCEPT ![t] = "fetching"]
    /\ IF pc[Other(t)] = "idle"
       THEN /\ mode_register2' = mode_register
            /\ power_register2' = power_register
       ELSE UNCHANGED <<mode_register2, power_register2>>
    /\ UNCHANGED <<mode_register, power_register, cyc, paired>>

\* the inputs of task t have arrived: it decides and, if it commands a mode,
\* writes the mode register (lines 674-785 and 561-577); before a power write
\* it sleeps
Decide(t) ==
    /\ pc[t] = "fetching"
    /\ \E x \in OverlapDecisions :
          LET call == x.o.call
              writes == call.called /\ x.in.mode_ok
          IN  /\ cyc' = [cyc EXCEPT
                            !.task[t] = [x |-> x, raised |-> "none"],
                            !.overlapped =
                                @ \/ pc[Other(t)] \in {"fetching", "sleeping"}]
              /\ mode_register' =
                     IF writes THEN <<0, call.mode>> ELSE mode_register
              /\ pc' = [pc EXCEPT ![t] =
                           IF writes /\ power_write_needed(call.power)
                           THEN "sleeping" ELSE "returned"]
    /\ UNCHANGED <<power_register, mode_register2, power_register2, paired>>

\* a statement of the body of task t raises; the except clause decides
\* whether the call returns or the exception reaches the caller
Raise(t) ==
    /\ pc[t] = "fetching"
    /\ \E kind \in RaisedKinds :
          /\ cyc' = [cyc EXCEPT !.task[t] = [x |-> NoDecision, raised |-> kind]]
          /\ pc' = [pc EXCEPT ![t] =
                       IF handles(kind) THEN "returned" ELSE "propagated"]
    /\ UNCHANGED <<mode_register, power_register, mode_register2,
                   power_register2, paired>>

\* task t wakes from asyncio.sleep(5) and writes the power register
\* (lines 583-597)
WritePower(t) ==
    /\ pc[t] = "sleeping"
    /\ LET x == cyc.task[t].x
       IN  power_register' =
               IF x.in.power_ok THEN power_values(x.o.call.power)
               ELSE power_register
    /\ pc' = [pc EXCEPT ![t] = "returned"]
    /\ UNCHANGED <<mode_register, cyc, mode_register2, power_register2, paired>>

\* both calls have returned; their callers may call again
Finish ==
    /\ pc = <<"returned", "returned">>
    /\ pc' = <<"idle", "idle">>
    /\ cyc' = [task |-> <<NoTask, NoTask>>, overlapped |-> FALSE]
    /\ UNCHANGED <<mode_register, power_register, mode_register2,
                   power_register2, paired>>

NextOverlap ==
    \/ \E t \in 1..2 : Begin(t)
    \/ \E t \in 1..2 : Decide(t)
    \/ \E t \in 1..2 : Raise(t)
    \/ \E t \in 1..2 : WritePower(t)
    \/ Finish

SpecOverlap == InitOverlap /\ [][NextOverlap]_vars

----------------------------------------------------------------------------
(* The control loop with its fairness                                      *)

\* a loop that ends when a cycle ended in an exception
loop_stops_on_exception(ended) == ended # "exception"

\* run, lines 807-823: while True; an exception of the cycle is caught in
\* optimize_charging (line 789) or in the loop (line 819), and the sleep
\* follows in every case
loop_continues(ended) == ended \in {"applied", "aborted", "exception"}

\* ended: how the cycle just run ended; after: how the one before it ended
NoLoopCycle(after) ==
    [ended |-> "none", after |-> after, rule |-> "none", call |-> NoCall]

InitLoop ==
    /\ pc = "idle"
    /\ mode_register = <<0, NORMAL>>
    /\ power_register = <<0, 0>>
    /\ mode_register2 = <<0, NORMAL>>
    /\ power_register2 = <<0, 0>>
    /\ cyc = NoLoopCycle("none")
    /\ paired = FALSE

\* a cycle that applies a decision or is aborted for missing data
LoopCycle ==
    /\ pc = "idle"
    /\ \E x \in OverlapDecisions :
          LET c == Cycle(x, mode_register, power_register)
          IN  /\ cyc' = [ended |-> IF c.call.called THEN "applied"
                                   ELSE "aborted",
                         after |-> cyc.after, rule |-> c.rule,
                         call |-> c.call]
              /\ mode_register' = c.mode_register
              /\ power_register' = c.power_register
    /\ pc' = "done"
    /\ UNCHANGED <<mode_register2, power_register2, paired>>

\* a cycle in which a statement of the body raises: the exception is logged,
\* nothing is written
LoopCycleRaises ==
    /\ pc = "idle"
    /\ cyc' = [ended |-> "exception", after |-> cyc.after,
               rule |-> "none", call |-> NoCall]
    /\ pc' = "done"
    /\ UNCHANGED <<mode_register, power_register, mode_register2,
                   power_register2, paired>>

\* asyncio.sleep(300), then the next iteration
LoopSleep ==
    /\ pc = "done"
    /\ loop_continues(cyc.ended)
    /\ pc' = "idle"
    /\ cyc' = NoLoopCycle(cyc.ended)
    /\ UNCHANGED <<mode_register, power_register, mode_register2,
                   power_register2, paired>>

NextLoop == LoopCycle \/ LoopCycleRaises \/ LoopSleep

\* the event loop runs the task: a cycle that can start does start and the
\* sleep ends
SpecLoop ==
    /\ InitLoop
    /\ [][NextLoop]_vars
    /\ WF_vars(LoopCycle \/ LoopCycleRaises)
    /\ WF_vars(LoopSleep)

----------------------------------------------------------------------------
(* BatteryController: thresholds and should_charge                         *)

\* thresholds of BatteryController.__init__
min_soc == 20
max_soc == 95
optimal_soc == 80

InitConfig ==
    /\ pc = "idle"
    /\ mode_register = <<0, NORMAL>>
    /\ power_register = <<0, 0>>
    /\ mode_register2 = <<0, NORMAL>>
    /\ power_register2 = <<0, 0>>
    /\ cyc = [min_soc |-> min_soc, max_soc |-> max_soc,
              optimal_soc |-> optimal_soc, used |-> FALSE]
    /\ paired = FALSE

\* BatteryDashboard.render_configuration with "Save Configuration" pressed:
\* the slider values (minimum 0..50, maximum 50..100) are stored in the
\* controller as they are
SaveConfiguration ==
    /\ pc = "idle"
    /\ \E lo \in 0..50, hi \in 50..100 :
          cyc' = [cyc EXCEPT !.min_soc = lo, !.max_soc = hi, !.used = FALSE]
    /\ pc' = "done"
    /\ UNCHANGED <<mode_register, power_register, mode_register2,
                   power_register2, paired>>

\* a cycle of the scheduler decides with the thresholds the controller holds
ThresholdsUsed ==
    /\ pc = "done"
    /\ cyc' = [cyc EXCEPT !.used = TRUE]
    /\ pc' = "idle"
    /\ UNCHANGED <<mode_register, power_register, mode_register2,
                   power_register2, paired>>

NextConfig == SaveConfiguration \/ ThresholdsUsed

SpecConfig == InitConfig /\ [][NextConfig]_vars

\* bound: longest price list given to should_charge
ShouldChargeLen == 6

RECURSIVE ListsUpTo(_)
ListsUpTo(n) == IF n = 0 THEN {<<>>} ELSE SeqsOfLen(n) \cup ListsUpTo(n - 1)

\* the k-th smallest element of s: sorted(prices)[:k][-1]
KthSmallest(s, k) ==
    CHOOSE v \in Range(s) :
        /\ Cardinality({i \in 1..Len(s) : s[i] < v}) < k
        /\ Cardinality({i \in 1..Len(s) : s[i] <= v}) >= k

Returns(value) == [raised |-> FALSE, value |-> value]
RaisesIndexError == [raised |-> TRUE, value |-> FALSE]

\* BatteryController.should_charge; prices are the 'total' of price_data.
\* prices[0] of an empty list and [-1] of an empty slice (int(len * 0.2) = 0)
\* raise IndexError
should_charge(prices, soc) ==
    IF soc >= max_soc THEN Returns(FALSE)
    ELSE IF soc <= min_soc THEN Returns(TRUE)
    ELSE IF prices = <<>> THEN RaisesIndexError
    ELSE LET k == IntTrunc(Len(prices) * 2, 10)
         IN  IF k = 0 THEN RaisesIndexError
             ELSE Returns(prices[1] <= KthSmallest(prices, k))

InitShouldCharge ==
    /\ pc = "idle"
    /\ mode_register = <<0, NORMAL>>
    /\ power_register = <<0, 0>>
    /\ mode_register2 = <<0, NORMAL>>
    /\ power_register2 = <<0, 0>>
    /\ cyc = [prices |-> <<>>, soc |-> 0, result |-> Returns(FALSE)]
    /\ paired = FALSE

\* a call of should_charge
ShouldCharge ==
    /\ pc = "idle"
    /\ \E prices \in ListsUpTo(ShouldChargeLen), soc \in {0} \cup SocValues :
          cyc' = [prices |-> prices, soc |-> soc,
                  result |-> should_charge(prices, soc)]
    /\ pc' = "done"
    /\ UNCHANGED <<mode_register, power_register, mode_register2,
                   power_register2, paired>>

\* the call ends: with its value, or in the except clause of its caller
ShouldChargeEnds ==
    /\ pc = "done"
    /\ pc' = "idle"
    /\ cyc' = [prices |-> <<>>, soc |-> 0, result |-> Returns(FALSE)]
    /\ UNCHANGED <<mode_register, power_register, mode_register2,
                   power_register2, paired>>

NextShouldCharge == ShouldCharge \/ ShouldChargeEnds

SpecShouldCharge == InitShouldCharge /\ [][NextShouldCharge]_vars

----------------------------------------------------------------------------
(* The battery power setpoint written and read back                        *)

\* largest value of one 16-bit register
MaxRegister == 65535

\* the powers a setpoint may take: charging (> 0) and discharging (< 0)
Setpoints == {p \in (0 - MaxRegister)..MaxRegister : p # 0}

\* decode_s32: the pair read as a big-endian signed 32-bit integer
decode_s32(registers) ==
    IF Len(registers) # 2 THEN 0
    ELSE LET high == IF registers[1] >= 32768 THEN registers[1] - 65536
                     ELSE registers[1]
         IN  high * 65536 + registers[2]

\* get_battery_status, current_battery_power of the pair read from 40149
current_battery_power(power_registers) ==
    IF power_registers # <<>> /\ Len(power_registers) = 2
    THEN IF power_registers[1] = 65535 THEN 65535 - power_registers[2]
         ELSE IF power_registers[1] = 0 THEN 0 - power_registers[2]
         ELSE 0
    ELSE 0

\* a setpoint is about to be commanded
InitSetpoint ==
    /\ pc = "idle"
    /\ mode_register = <<0, NORMAL>>
    /\ power_register = <<0, 0>>
    /\ mode_register2 = <<0, NORMAL>>
    /\ power_register2 = <<0, 0>>
    /\ cyc \in {[power |-> p, battery_power |-> 0] : p \in Setpoints}
    /\ paired = FALSE

\* set_battery_mode writes the power pair of the setpoint
WriteSetpoint ==
    /\ pc = "idle"
    /\ power_register' = power_values(cyc.power)
    /\ mode_register' = <<0, FAST_CHARGE>>
    /\ pc' = "written"
    /\ UNCHANGED <<cyc, mode_register2, power_register2, paired>>

\* get_battery_status reads the pair back
ReadSetpoint ==
    /\ pc = "written"
    /\ cyc' = [cyc EXCEPT !.battery_power = current_battery_power(power_register)]
    /\ pc' = "read"
    /\ UNCHANGED <<mode_register, power_register, mode_register2,
                   power_register2, paired>>

NextSetpoint == WriteSetpoint \/ ReadSetpoint

SpecSetpoint == InitSetpoint /\ [][NextSetpoint]_vars

----------------------------------------------------------------------------
(* Vocabulary of the properties                                            *)

Done == pc = "done"
CarCharging == cyc.in.car_charging_active
IsNormal(call) == call = Call(NORMAL, 0)
IsPause(call) == call = Call(PAUSE, 0)
IsCharge(call) == call.called /\ call.mode = FAST_CHARGE /\ call.power > 0

\* the future subset as the specification defines it: the points whose hour
\* has not ended, starts_at + 1 hour > now
HourNotEnded(prices, now) ==
    SelectSeq(prices, LAMBDA p : p.startsAt + Hour(1) > now)

\* the minimum-score, earliest window over the points whose hour has not ended
BestWindowOfOpenHours(prices, now) ==
    LET future == HourNotEnded(prices, now)
    IN  IF Len(future) < hours_needed THEN NoWindow
        ELSE ScanWindows(future, 0, hours_needed, SeqMin(Totals(future)),
                         SeqMax(Totals(future)) - SeqMin(Totals(future)),
                         NoWindow)

\* base_power, soc_taper and price_shaped_power as the properties state them
StatedBasePower(soc) ==
    Min2(5000, Max2(1500, (5000 * (100 - soc)) \div 100))
StatedTaper(soc) ==
    IF soc <= 85 THEN 100 ELSE Max2(20, 100 - 8 * (soc - 85))
StatedShapedPower(soc, pos_num, pos_den) ==
    Max2(1000, (StatedBasePower(soc) * StatedTaper(soc)
                    * (7 * pos_den + 3 * (pos_den - pos_num)))
               \div (1000 * pos_den))

----------------------------------------------------------------------------
(* C1-C6: precedence of the rules and the safe fallbacks                   *)

\* C1: in every cycle in which the car is charging, the decision applied to
\* the battery is PAUSE, whatever the other inputs are.
C1_CarChargingPauses ==
    (Done /\ CarCharging) => IsPause(cyc.call)

\* C2: in every cycle in which the car is not charging and the state of
\* charge is at or above max_soc, the decision applied is NORMAL, for every
\* price series the cycle received, also one with fewer than hours_needed
\* future points.
C2_CeilingYieldsNormal ==
    (Done /\ ~CarCharging /\ cyc.in.prices # <<>>
          /\ cyc.in.soc_regs # <<>> /\ cyc.soc >= max_charge_level)
        => IsNormal(cyc.call)

\* C3: in every cycle in which the car is not charging and the state of
\* charge is at or below min_soc, the decision applied is CHARGE, for every
\* price series the cycle received, also one with fewer than hours_needed
\* future points.
C3_FloorYieldsCharge ==
    (Done /\ ~CarCharging /\ cyc.in.prices # <<>>
          /\ cyc.in.soc_regs # <<>> /\ cyc.soc <= min_charge_level)
        => IsCharge(cyc.call)

\* C4: a cycle whose price series is missing is aborted with NORMAL applied:
\* after it the battery is in NORMAL mode, whatever an earlier cycle had set.
C4_MissingDataAppliesNormal ==
    (Done /\ cyc.in.prices = <<>>) => mode_register = <<0, NORMAL>>

\* C5: when the car is not charging, the battery status is valid and fewer
\* than hours_needed future points exist, the window search returns none and
\* the decision of the cycle is NORMAL, marked as insufficient data.  (Stated
\* for the cycles that reach the window search: a price series was received,
\* min_soc < soc < max_soc and the current hour is not a favorable one.)
C5_ShortFutureYieldsNormal ==
    (Done /\ ~CarCharging /\ cyc.in.prices # <<>>
          /\ cyc.in.soc_regs # <<>>
          /\ cyc.soc > min_charge_level /\ cyc.soc < max_charge_level
          /\ ~should_charge_now(cyc.soc, cyc.in.prices, cyc.in.now)
          /\ Len(HourNotEnded(cyc.in.prices, cyc.in.now)) < hours_needed)
        => /\ ~cyc.window.found
           /\ IsNormal(cyc.call)
           /\ cyc.rule = "no_window"

\* C6: when the car is not charging and the state of charge is at or below
\* min_soc, the CHARGE power is the fixed emergency setpoint of 1500 W,
\* independent of the position of the current price.
C6_FloorPowerIsEmergency ==
    (Done /\ ~CarCharging /\ cyc.in.soc_regs # <<>>
          /\ cyc.soc <= min_charge_level /\ IsCharge(cyc.call))
        => cyc.call.power = emergency_power

----------------------------------------------------------------------------
(* C7: the applied state as a function of the cycle's inputs               *)

\* C7: two runs that receive the same inputs in a cycle end that cycle with
\* the same applied mode and power setpoint, whatever their earlier cycles
\* decided or wrote.  (Stated for the cycles that command a mode; every
\* write of the two runs succeeds.)
C7_SameInputsSameRegisters ==
    (Done /\ paired /\ cyc.call.called /\ cyc.ok)
        => /\ mode_register = mode_register2
           /\ power_register = power_register2

----------------------------------------------------------------------------
(* C8-C10: the charging rules                                              *)

\* no rule before the window rule decides the cycle: prices were received,
\* the car is not charging, min_soc < soc < max_soc, and the current price is
\* not favorable or soc >= optimal_soc
ReachesWindowRule ==
    /\ Done
    /\ ~CarCharging
    /\ cyc.in.prices # <<>>
    /\ cyc.in.soc_regs # <<>>
    /\ cyc.soc > min_charge_level
    /\ cyc.soc < max_charge_level
    /\ ~should_charge_now(cyc.soc, cyc.in.prices, cyc.in.now)

\* C8: when no earlier rule matches, a best window is found, now lies in
\* [window.start, window.end) and window.score < 0.4, the decision is CHARGE
\* with the price-shaped power of the window's relative position.
C8_ActiveWindowCharges ==
    LET w == BestWindowOfOpenHours(cyc.in.prices, cyc.in.now)
    IN  (/\ ReachesWindowRule
         /\ w.found
         /\ w.start_time <= cyc.in.now
         /\ cyc.in.now < w.end_time
         /\ 10 * w.score_num < 4 * w.score_den)
            => cyc.call = Call(FAST_CHARGE,
                               StatedShapedPower(cyc.soc, w.pos_num, w.pos_den))

\* the price point the cycle takes as current, and the extremes of the
\* whole series
CurrentTotal == cyc.in.prices[current_price_data(cyc.in.prices, cyc.in.now)].total
LowestTotal == SeqMin(Totals(cyc.in.prices))
HighestTotal == SeqMax(Totals(cyc.in.prices))

\* the case of C9: the car is not charging, min_soc < soc < optimal_soc, and
\* the current price lies at most 20% of the series' range above its minimum
FavorableHour ==
    /\ Done
    /\ ~CarCharging
    /\ cyc.in.prices # <<>>
    /\ cyc.in.soc_regs # <<>>
    /\ cyc.soc > min_charge_level
    /\ cyc.soc < optimal_charge_level
    /\ current_price_data(cyc.in.prices, cyc.in.now) # 0
    /\ 5 * (CurrentTotal - LowestTotal) <= HighestTotal - LowestTotal

TroughCycle ==
    /\ Done
    /\ ~CarCharging
    /\ cyc.in.prices = TroughSeries
    /\ cyc.in.soc_regs = <<0, 50>>

----------------------------------------------------------------------------
(* C11-C14: the window search                                              *)

\* a call of one of the two scoring finders has ended
SearchDone == pc = "done" /\ cyc.finder \in {"controller", "tibber"}

\* a call of any of the three finders has ended
AnySearchDone == pc = "done" /\ cyc.finder \in {"controller", "tibber", "optimizer"}

\* score of a is lower than score of b
ScoreLess(a, b) == a.score_num * b.score_den < b.score_num * a.score_den

\* the candidates no candidate scores lower than
MinScoreIndexes(c) ==
    {k \in 1..Len(c) : \A j \in 1..Len(c) : ~ScoreLess(c[j], c[k])}

\* a and b are the same points with the same position and score
SamePoints(a, b) ==
    /\ a.found = b.found
    /\ a.start_time = b.start_time
    /\ a.sum_price = b.sum_price
    /\ a.pos_num * b.pos_den = b.pos_num * a.pos_den
    /\ a.score_num * b.score_den = b.score_num * a.score_den

\* C11: the search returns a window exactly when the points it searches
\* number hours_needed or more, and the window it returns is the candidate of
\* minimum score, the earliest of them when several share that score; the
\* result is this function of the series and of now, so two calls with the
\* same series and the same now return the same window.
C11_MinScoreEarliest ==
    SearchDone
        => /\ cyc.window.found <=> Len(cyc.future) >= hours_needed
           /\ cyc.window.found <=> cyc.candidates # <<>>
           /\ cyc.window.found
                => SamePoints(cyc.window,
                              cyc.candidates[
                                  SetMin(MinScoreIndexes(cyc.candidates))])

\* several candidates share the minimum score and the first candidate is
\* not one of them
C11_Witness ==
    /\ SearchDone
    /\ cyc.window.found
    /\ Cardinality(MinScoreIndexes(cyc.candidates)) >= 2
    /\ 1 \notin MinScoreIndexes(cyc.candidates)

\* C12: the points the window search works on are exactly those with
\* starts_at + 1 hour > now, the point of the hour that contains now among
\* them.
C12_FutureHoldsCurrentHour ==
    AnySearchDone => cyc.future = HourNotEnded(cyc.prices, cyc.now)

\* minimum and maximum over the points the search works on
FutureMin == SeqMin(Totals(cyc.future))
FutureMax == SeqMax(Totals(cyc.future))

\* the prices of the k-th candidate window
CandidateTotals(k) == Totals(SubSeq(cyc.future, k, k + hours_needed - 1))

\* C13: for every candidate window of a search whose points are not all
\* equal, relative_position = (avg(window) - series_min) / (series_max -
\* series_min) and score = 0.6 * relative_position + 0.4 * stability with
\* stability = (max(window) - min(window)) / (series_max - series_min),
\* series_min and series_max being taken over the points the search works
\* on, not over the whole series.
C13_ScoreFormula ==
    (SearchDone /\ cyc.candidates # <<>> /\ FutureMax > FutureMin)
        => \A k \in 1..Len(cyc.candidates) :
              LET w == cyc.candidates[k]
                  n == hours_needed
                  range == FutureMax - FutureMin
                  sum == SeqSum(CandidateTotals(k))
                  spread == SeqMax(CandidateTotals(k))
                                - SeqMin(CandidateTotals(k))
              IN  /\ w.pos_num * (n * range)
                        = (sum - n * FutureMin) * w.pos_den
                  /\ w.score_num * (10 * n * range)
                        = (6 * (sum - n * FutureMin) + 4 * n * spread)
                              * w.score_den

\* a search whose points have a higher minimum than the whole series, with a
\* candidate whose position and stability differ
C13_Witness ==
    /\ SearchDone
    /\ cyc.candidates # <<>>
    /\ FutureMax > FutureMin
    /\ SeqMin(Totals(cyc.prices)) < FutureMin
    /\ \E k \in 1..Len(cyc.candidates) :
          LET sum == SeqSum(CandidateTotals(k))
              spread == SeqMax(CandidateTotals(k)) - SeqMin(CandidateTotals(k))
          IN  /\ spread > 0
              /\ sum - hours_needed * FutureMin # hours_needed * spread

\* C14: the window every finder returns ends one hour after the start of its
\* last point, so that it spans hours_needed hours.
C14_EndIsLastStartPlusHour ==
    (AnySearchDone /\ cyc.window.found)
        => /\ \E k \in 1..(Len(cyc.future) - hours_needed + 1) :
                 /\ cyc.future[k].startsAt = cyc.window.start_time
                 /\ cyc.window.end_time
                        = cyc.future[k + hours_needed - 1].startsAt + Hour(1)
           /\ cyc.window.end_time - cyc.window.start_time
                  = Hour(hours_needed)

----------------------------------------------------------------------------
(* C15-C18: numerical properties                                           *)

\* a cycle whose price series is not empty and has all prices equal
FlatCycle ==
    /\ Done
    /\ cyc.in.prices # <<>>
    /\ SeqMax(Totals(cyc.in.prices)) = SeqMin(Totals(cyc.in.prices))

\* the windows the search of the cycle evaluated
CycleCandidates ==
    IF cyc.searched
    THEN Candidates(cyc.in.prices, cyc.in.now + cyc.in.delay)
    ELSE <<>>

\* C15: in a cycle whose prices are all equal every window the search
\* evaluates has relative_position 0 and score 0 (hence stability 0, the
\* score being 0.6 * relative_position + 0.4 * stability), the position of
\* the current price is 0 (the hour is favorable: with the car not charging
\* and soc below optimal the cycle charges at the power of position 0), and
\* no division of the search or of the decision has a zero divisor.
C15_FlatSeriesIsSafe ==
    FlatCycle
        => /\ \A k \in 1..Len(CycleCandidates) :
                 /\ CycleCandidates[k].pos_num = 0
                 /\ CycleCandidates[k].pos_den > 0
                 /\ CycleCandidates[k].score_num = 0
                 /\ CycleCandidates[k].score_den > 0
           /\ 0 \notin cycle_divisors(cyc.in.soc_regs,
                                      cyc.in.car_charging_active,
                                      cyc.in.prices, cyc.in.now,
                                      cyc.in.now + cyc.in.delay)
           /\ (/\ ~CarCharging
               /\ cyc.soc < optimal_charge_level
               /\ current_price_data(cyc.in.prices, cyc.in.now) # 0)
                  => cyc.call = Call(FAST_CHARGE,
                                     StatedShapedPower(cyc.soc, 0, 1))
           /\ cyc.rule \in {"car_charging", "charge_now", "no_window",
                            "ceiling", "floor", "default"}

\* a flat cycle whose search evaluated several windows and returned one
C15_Witness ==
    /\ FlatCycle
    /\ Len(CycleCandidates) >= 2
    /\ cyc.window.found

\* stability of a candidate, from the score and the position the search
\* computed for it: stability = (score - 0.6 * relative_position) / 0.4
StabilityNum(w) == 10 * w.score_num * w.pos_den - 6 * w.pos_num * w.score_den
StabilityDen(w) == 4 * w.score_den * w.pos_den

\* C16: for every window the search evaluates, relative_position, stability
\* and score lie in [0, 1].
C16_ScoresWithinUnit ==
    SearchDone
        => \A k \in 1..Len(cyc.candidates) :
              LET w == cyc.candidates[k]
              IN  /\ w.pos_den > 0 /\ w.score_den > 0
                  /\ 0 <= w.pos_num /\ w.pos_num <= w.pos_den
                  /\ 0 <= StabilityNum(w) /\ StabilityNum(w) <= StabilityDen(w)
                  /\ 0 <= w.score_num /\ w.score_num <= w.score_den

\* a search with a window at relative_position 1 and a window of stability 1
C16_Witness ==
    /\ SearchDone
    /\ \E k \in 1..Len(cyc.candidates) :
          cyc.candidates[k].pos_num = cyc.candidates[k].pos_den
    /\ \E k \in 1..Len(cyc.candidates) :
          /\ StabilityNum(cyc.candidates[k]) = StabilityDen(cyc.candidates[k])
          /\ cyc.candidates[k].pos_num > 0

C18_PowerFallsWithPosition ==
    (pc = "done" /\ cyc.op \in {"charging_power", "window_power"}
                 /\ cyc.pos1 <= cyc.pos2)
        => cyc.power1 >= cyc.power2

\* the favorable-hour power at soc 50 for the positions 0 and 1: the cheaper
\* position gets the higher power
C18_Witness ==
    /\ pc = "done"
    /\ cyc.op = "charging_power"
    /\ cyc.soc = 50
    /\ cyc.pos1 = 0
    /\ cyc.pos2 = PositionSteps
    /\ cyc.power1 > cyc.power2

----------------------------------------------------------------------------
(* C19-C20: overlapping cycles and the call boundary                       *)

BothReturned == pc = <<"returned", "returned">>

\* the registers after the cycle of task record r has run alone from regs
Alone(r, regs) ==
    IF r.raised # "none" \/ ~r.x.o.call.called THEN regs
    ELSE LET w == set_battery_mode(r.x.o.call.mode, r.x.o.call.power,
                                   r.x.in.mode_ok, r.x.in.power_ok,
                                   regs[1], regs[2])
         IN  <<w.mode_register, w.power_register>>

\* the registers after the cycles of tasks a and b, one after the other,
\* from the registers as they were before the two began
Sequential(a, b) ==
    Alone(cyc.task[b],
          Alone(cyc.task[a], <<mode_register2, power_register2>>))

\* C19: when two cycles that may overlap have both returned, each has taken
\* the decision optimize_charging takes on its inputs alone, and the mode and
\* power registers are as one of the two sequential orders of the two cycles
\* leaves them.
C19_OverlapIsSerializable ==
    BothReturned
        => /\ \A t \in 1..2 :
                 cyc.task[t].raised = "none"
                     => cyc.task[t].x.o = cycle_outcome(cyc.task[t].x.in)
           /\ <<mode_register, power_register>>
                  \in {Sequential(1, 2), Sequential(2, 1)}

\* two cycles that overlapped, one commanding a charge and one NORMAL, the
\* NORMAL mode written while the charging cycle slept before its power write
C19_Witness ==
    /\ BothReturned
    /\ cyc.overlapped
    /\ IsCharge(cyc.task[1].x.o.call)
    /\ IsNormal(cyc.task[2].x.o.call)
    /\ mode_register = <<0, NORMAL>>
    /\ power_register = power_values(cyc.task[1].x.o.call.power)
    /\ power_register # power_register2

\* C20: no call of optimize_charging lets an exception reach its caller:
\* whatever the battery status (missing included), the price series (empty,
\* flat, without a point for the current hour) and the car signal, and also
\* when a statement of its body raises, the call returns.
C20_NoExceptionReachesCaller ==
    \A t \in 1..2 :
        /\ pc[t] # "propagated"
        /\ pc[t] = "returned"
               => \/ cyc.task[t].raised # "none"
                  \/ cyc.task[t].x.o.rule \in
                         {"missing_data", "car_charging", "charge_now",
                          "no_window", "ceiling", "floor", "window",
                          "default"}

\* a call that returned after an exception of its body, and a call that
\* returned on a series without a point for the current hour
C20_Witness ==
    /\ BothReturned
    /\ cyc.task[1].raised = "KeyError"
    /\ cyc.task[2].raised = "none"
    /\ cyc.task[2].x.in.prices # <<>>
    /\ current_price_data(cyc.task[2].x.in.prices, cyc.task[2].x.in.now) = 0

----------------------------------------------------------------------------
(* C22-C24: the applied setpoint, a failed read, the best-window rule      *)

\* C22: after a cycle that applied PAUSE because the car is charging, the
\* power setpoint of the inverter is zero, whatever earlier cycles wrote.
C22_PauseClearsPower ==
    (Done /\ cyc.rule = "car_charging" /\ cyc.ok)
        => power_register = <<0, 0>>

\* C23: a cycle in which the read of the state-of-charge register failed
\* (the car not charging, prices received) is handled as one without battery
\* status: it commands no charging.
C23_FailedReadIsMissingStatus ==
    (Done /\ ~CarCharging /\ cyc.in.prices # <<>> /\ cyc.in.soc_regs = <<>>)
        => /\ ~IsCharge(cyc.call)
           /\ cyc.rule = "missing_data"

\* C24: every window the search returns to a cycle starts strictly after the
\* instant now the cycle sampled before the call, so the test
\* start_time <= now <= end_time of the cycle is false and no cycle commands
\* charging through the best-window rule.
C24_WindowStartsAfterNow ==
    Done
        => /\ cyc.window.found
                => /\ cyc.window.start_time > cyc.in.now
                   /\ ~in_best_window(cyc.window, cyc.in.now)
           /\ cyc.rule # "window"

\* a cycle between floor and ceiling whose window has a score below 0.4 and
\* starts half an hour after now: it is decided by the default rule
C24_Witness ==
    /\ Done
    /\ cyc.window.found
    /\ cyc.soc = 80
    /\ 10 * cyc.window.score_num < 4 * cyc.window.score_den
    /\ cyc.window.start_time = cyc.in.now + 1
    /\ cyc.rule = "default"

----------------------------------------------------------------------------
(* C25-C26: the charging power and the register writes                     *)

\* C25: every charging power the cycle computes, by the favorable-hour rule
\* or by the best-window rule, for every state of charge in [0, 100] and
\* every price position, lies between 1000 W and 5000 W; so does the fixed
\* power of the floor rule.
C25_PowerWithinLimits ==
    (pc = "done" /\ cyc.op \in {"charging_power", "window_power"})
        => /\ 1000 <= cyc.power1 /\ cyc.power1 <= 5000
           /\ 1000 <= cyc.power2 /\ cyc.power2 <= 5000
           /\ 1000 <= emergency_power /\ emergency_power <= 5000

\* the favorable-hour power at soc 90 and the dearest position, where the
\* floor of 1000 W acts
C25_Witness ==
    /\ pc = "done"
    /\ cyc.op = "charging_power"
    /\ cyc.soc = 90
    /\ cyc.pos2 = PositionSteps
    /\ cyc.power2 = 1000

\* C26: a call of set_battery_mode writes the mode register first and the
\* power register only after a successful mode write and for a non-zero
\* power; a failed mode write leaves both registers as they were; a register
\* changes only to the value commanded; and the call returns True exactly
\* when every write it attempted succeeded.
C26_WriteOrder ==
    [][(pc = "idle" /\ pc' = "done" /\ cyc'.call.called)
          => LET in == cyc'.in
                 call == cyc'.call
             IN  /\ ~in.mode_ok
                        => /\ ~cyc'.ok
                           /\ mode_register' = mode_register
                           /\ power_register' = power_register
                 /\ in.mode_ok => mode_register' = <<0, call.mode>>
                 /\ (in.mode_ok /\ call.power # 0 /\ in.power_ok)
                        => power_register' = power_values(call.power)
                 /\ ~(in.mode_ok /\ call.power # 0 /\ in.power_ok)
                        => power_register' = power_register
                 /\ cyc'.ok <=> (in.mode_ok /\ (call.power # 0 => in.power_ok))
      ]_vars

\* a call whose mode write failed after an earlier cycle had left NORMAL
\* mode: the charge is commanded, False returned, NORMAL still in place
C26_Witness ==
    /\ Done
    /\ IsCharge(cyc.call)
    /\ ~cyc.in.mode_ok
    /\ ~cyc.ok
    /\ mode_register = <<0, NORMAL>>
    /\ power_register = <<0, 0>>

----------------------------------------------------------------------------
(* C27: the control loop                                                   *)

\* C27: after any cycle, whether it applied a decision, was aborted for
\* missing data or ended in an exception, the loop waits and starts another
\* cycle; under fairness cycles are run again and again.
C27_CyclesForever ==
    /\ \A k \in {"applied", "aborted", "exception"} :
          (pc = "done" /\ cyc.ended = k) ~> (pc = "done" /\ cyc.after = k)
    /\ []<>(pc = "idle")
    /\ []<>(pc = "done")

\* a cycle has been run after one that ended in an exception
C27_Witness ==
    /\ pc = "done"
    /\ cyc.after = "exception"
    /\ cyc.ended = "applied"

----------------------------------------------------------------------------
(* C21, C28: BatteryController                                             *)

\* C21: the thresholds a cycle uses satisfy min_soc <= optimal_soc <= max_soc.
C21_ThresholdsOrdered ==
    cyc.used
        => /\ cyc.min_soc <= cyc.optimal_soc
           /\ cyc.optimal_soc <= cyc.max_soc

\* C28: should_charge returns a boolean without raising for every state of
\* charge and every price list, and for min_soc < soc < max_soc the value is
\* true exactly when the first price is at most the highest price among the
\* cheapest 20% of the list.
C28_ShouldChargeReturns ==
    pc = "done"
        => /\ ~cyc.result.raised
           /\ (min_soc < cyc.soc /\ cyc.soc < max_soc)
                  => (cyc.result.value
                          <=> cyc.prices[1]
                                  <= KthSmallest(cyc.prices,
                                                 (Len(cyc.prices) * 2) \div 10))

----------------------------------------------------------------------------
(* C29-C30: the encoding of the power setpoint                             *)

\* C29: the pair written for a power p, read as a big-endian signed 32-bit
\* integer, is -p for charging (p > 0 commanded) and the magnitude for
\* discharging.
C29_SetpointIsSigned32 ==
    pc \in {"written", "read"}
        => decode_s32(power_register) = 0 - cyc.power

\* C30: the pair written for a power p with 0 < |p| <= 65535 is decoded by
\* get_battery_status back to p, positive for charging and negative for
\* discharging.
C30_SetpointRoundTrip ==
    pc = "read" => cyc.battery_power = cyc.power

\* a charging power of 2500 W written as [65535, 63035] and read back
C30_Witness ==
    /\ pc = "read"
    /\ cyc.power = 2500
    /\ power_register = <<65535, 63035>>
    /\ cyc.battery_power = 2500

====
